---- MODULE Spec2Model ----
(***************************************************************************)
(* A model of the aggregation-pipeline builder: the Pipeline composer      *)
(* (app/pipeline.py), the Lookup stage (app/stages/lookup.py), the         *)
(* BucketAuto stage (monggregate/stages/bucket_auto.py), the search stage  *)
(* (monggregate/stages/search/base.py) and the operators IN and Last       *)
(* (monggregate/operators).                                                *)
(*                                                                         *)
(* Python values are tagged records, so that values of different Python    *)
(* types can sit in the same position (None or a dict, a str or an int).   *)
(* Keyword arguments are functions from parameter names to tagged values;  *)
(* a parameter that is not passed is not in the function's domain.         *)
(***************************************************************************)
EXTENDS Integers, Sequences, FiniteSets, TLC

\* Bounds of the model.
MaxStages == 2      \* stages a pipeline holds at most
MaxExports == 2     \* export() evaluations counted since the last added stage

------------------------------------------------------------------------------
\* Python values

None == [t |-> "None"]
PyStr(s) == [t |-> "str", v |-> s]
PyInt(n) == [t |-> "int", v |-> n]
PyDict(d) == [t |-> "dict", v |-> d]
PyList(l) == [t |-> "list", v |-> l]

NoKwargs == <<>>

\* The outcome of a call: a returned value or a raised exception.
Ok(kind, v) == [kind |-> kind, value |-> v]
Raise(exc) == [kind |-> "raise", exc |-> exc]
Nothing == [kind |-> "none"]

Self == "pipeline"

------------------------------------------------------------------------------
\* Keyword-argument inputs

\* A parameter that is absent, or passed under its declared name.
Opt(key, vals) == {NoKwargs} \cup {key :> v : v \in vals}

\* A parameter that is absent, passed under its declared name or under its alias.
Spell(name, alias, vals) == Opt(name, vals) \cup Opt(alias, vals)

MatchDoc == PyDict("$match" :> PyDict("qty" :> PyInt(1)))
OutDoc == PyDict("$out" :> PyStr("archive"))
MergeDoc == PyDict("$merge" :> PyDict("into" :> PyStr("archive")))
LetDoc == PyDict("order_qty" :> PyStr("$qty"))

\* Sub-pipelines given to Lookup: lists of already compiled stage documents.
SubPipelines ==
    { PyList(<<>>), PyList(<<MatchDoc>>), PyList(<<OutDoc>>),
      PyList(<<MatchDoc, MergeDoc>>), PyList(<<MergeDoc, MatchDoc>>) }

\* Every way of calling Lookup with a sub-pipeline among pipelines: each aliased
\* parameter absent, under its name or under its alias; let and pipeline absent
\* or passed.
LookupKwargs(pipelines) ==
    { a @@ b @@ c @@ d @@ e @@ f :
        a \in Spell("right", "from", {PyStr("inventory")}),
        b \in Spell("left_on", "local_field", {PyStr("item")}),
        c \in Spell("right_on", "foreign_field", {PyStr("sku")}),
        d \in Spell("name", "as", {PyStr("docs")}),
        e \in Opt("let", {LetDoc}),
        f \in Opt("pipeline", pipelines) }

OutputDoc == PyDict("avg" :> PyDict("$avg" :> PyStr("$price")))

\* Every way of calling BucketAuto with a bucket count among counts.
BucketCounts == -1..2

BucketAutoKwargs(counts) ==
    { a @@ b @@ c @@ d :
        a \in Spell("by", "group_by", {PyStr("$price"), PyStr("$qty")}),
        b \in Opt("buckets", {PyInt(n) : n \in counts}),
        c \in Opt("output", {None, OutputDoc}),
        d \in Opt("granularity", {None, PyStr("R5"), PyStr("R7")}) }

\* The calls of Pipeline.lookup and Pipeline.bucket_auto that are tried.
FourOf(right) ==
    "right" :> PyStr(right) @@ "left_on" :> PyStr("item") @@
    "right_on" :> PyStr("sku") @@ "name" :> PyStr("docs")

PipelineLookupKwargs(right) ==
    { FourOf(right) @@ "let" :> LetDoc @@ "pipeline" :> PyList(<<MatchDoc>>),
      FourOf(right) @@ "let" :> LetDoc @@ "pipeline" :> PyList(<<MatchDoc, MergeDoc>>),
      FourOf(right),
      "right" :> PyStr(right) @@ "let" :> LetDoc @@ "pipeline" :> PyList(<<>>) }

PipelineBucketAutoKwargs(counts) ==
    { "by" :> PyStr("$price") @@ "buckets" :> PyInt(n) : n \in counts }

\* The parameter sets tried for each of the other stages.
StageKwargs(cls) ==
    CASE cls = "Set" -> {"document" :> PyDict("total" :> PyStr("$qty"))}
      [] cls = "Bucket" ->
            {[k \in {"boundaries", "by"} |->
                IF k = "by" THEN PyStr("$price")
                ELSE PyList(<<PyInt(0), PyInt(10)>>)]}
      [] cls = "Count" -> {"name" :> PyStr("n")}
      [] cls = "Unwind" -> {"path" :> PyStr("$items")}
      [] cls = "Group" -> {"by" :> PyStr("$item")}
      [] cls = "Limit" -> {"value" :> PyInt(5)}
      [] cls = "Match" -> {"query" :> PyDict("qty" :> PyInt(1))}
      [] cls = "Project" -> {"include" :> PyStr("item")}
      [] cls = "ReplaceRoot" -> {"path" :> PyStr("$item")}
      [] cls = "Sample" -> {"value" :> PyInt(3)}
      [] cls = "Skip" -> {"value" :> PyInt(1)}
      [] cls = "Sort" -> {"by" :> PyStr("qty")}
      [] cls = "SortByCount" -> {"by" :> PyStr("$item")}

------------------------------------------------------------------------------
\* Stage base (monggregate/base.py and stages/stage.py are not part of the
\* sources at hand; these follow the specification's sections 4.1 to 4.4)

\* A stage object: its class and its validated fields.
NewStage(cls, fields) == [cls |-> cls, fields |-> fields]

\* A parameter can be passed under its alias or under its declared name.
Passed(kw, name, alias) == alias \in DOMAIN kw \/ name \in DOMAIN kw
Given(kw, name, alias) == IF alias \in DOMAIN kw THEN kw[alias] ELSE kw[name]

\* Recursive substitution of model-backed values by their statement; raw values
\* (None, strings, numbers) are kept as they are.
RECURSIVE resolve(_)
resolve(obj) ==
    CASE obj.t = "model" -> resolve(obj.statement)
      [] obj.t = "dict" -> PyDict([k \in DOMAIN obj.v |-> resolve(obj.v[k])])
      [] obj.t = "list" -> PyList([i \in DOMAIN obj.v |-> resolve(obj.v[i])])
      [] OTHER -> obj

\* by is validated as a field path or an expression: a "$"-prefixed path and an
\* expression document are kept as they are.
validate_field_path(path) == path

IsStr(v) == v.t = "str"
IsInt(v) == v.t = "int"
IsDict(v) == v.t = "dict"
IsListOfDict(v) == v.t = "list" /\ \A i \in DOMAIN v.v : IsDict(v.v[i])

------------------------------------------------------------------------------
\* Lookup (app/stages/lookup.py)

\* Declared name -> alias; let and pipeline have no alias.
LookupAliasOf(f) ==
    CASE f = "right" -> "from"
      [] f = "left_on" -> "local_field"
      [] f = "right_on" -> "foreign_field"
      [] f = "name" -> "as"
      [] OTHER -> f

\* Fields declared without a default: pydantic requires each of them.
LookupRequired == {"left_on", "let", "name", "pipeline", "right", "right_on"}

LookupFieldsSwapped(kw) ==
    ("right" :> Given(kw, "right", "from") @@
     "left_on" :> Given(kw, "right_on", "foreign_field") @@
     "right_on" :> Given(kw, "left_on", "local_field") @@
     "name" :> Given(kw, "name", "as") @@
     "let" :> kw["let"] @@
     "pipeline" :> kw["pipeline"])

LookupFields(kw) ==
    ("right" :> Given(kw, "right", "from") @@
     "left_on" :> Given(kw, "left_on", "local_field") @@
     "right_on" :> Given(kw, "right_on", "foreign_field") @@
     "name" :> Given(kw, "name", "as") @@
     "let" :> kw["let"] @@
     "pipeline" :> kw["pipeline"])

\* The types the fields are declared with.
LookupTypesOk(kw) ==
    /\ IsStr(Given(kw, "right", "from"))
    /\ IsStr(Given(kw, "left_on", "local_field"))
    /\ IsStr(Given(kw, "right_on", "foreign_field"))
    /\ IsStr(Given(kw, "name", "as"))
    /\ IsDict(kw["let"])
    /\ IsListOfDict(kw["pipeline"])

\* Lookup(**kw): the class declares six fields and no validator.
Lookup(kw) ==
    IF \E f \in LookupRequired : ~Passed(kw, f, LookupAliasOf(f))
    THEN Raise("ValidationError")
    ELSE IF ~LookupTypesOk(kw)
    THEN Raise("ValidationError")
    ELSE Ok("stage", NewStage("Lookup", LookupFields(kw)))

\* The class defines no statement of its own; the document is the one the
\* specification gives for the join stage.
LookupStatement(f) ==
    PyDict("$lookup" :> PyDict(
        "from" :> f["right"] @@
        "localField" :> f["left_on"] @@
        "foreignField" :> f["right_on"] @@
        "as" :> f["name"] @@
        "let" :> f["let"] @@
        "pipeline" :> f["pipeline"]))

------------------------------------------------------------------------------
\* BucketAuto (monggregate/stages/bucket_auto.py)

GranularityEnum ==
    {"R5", "R10", "R20", "R40", "R80", "1-2-5", "E6", "E12", "E24", "E48",
     "E96", "E192", "POWERSOF2"}

\* buckets : int = Field(..., gt=0)
BucketsOkGe(n) == IsInt(n) /\ n.v >= 0
BucketsOk(n) == IsInt(n) /\ n.v > 0

\* output : dict | None = None
OutputOk(o) == o = None \/ IsDict(o)

\* granularity : GranularityEnum | None = None; a valid tag is stored as the
\* member of the enumeration that carries it.
GranularityOk(g) == g = None \/ (IsStr(g) /\ g.v \in GranularityEnum)
EnumMember(g) == IF g = None THEN None ELSE [t |-> "enum", v |-> g.v]
EnumValue(m) == PyStr(m.v)

Default(kw, name, dflt) == IF name \in DOMAIN kw THEN kw[name] ELSE dflt

BucketAutoFields(kw) ==
    ("by" :> validate_field_path(Given(kw, "by", "group_by")) @@
     "buckets" :> kw["buckets"] @@
     "output" :> Default(kw, "output", None) @@
     "granularity" :> EnumMember(Default(kw, "granularity", None)))

\* BucketAuto(**kw)
BucketAuto(kw) ==
    IF ~Passed(kw, "by", "group_by") \/ "buckets" \notin DOMAIN kw
    THEN Raise("ValidationError")
    ELSE IF ~BucketsOk(kw["buckets"])
            \/ ~OutputOk(Default(kw, "output", None))
            \/ ~GranularityOk(Default(kw, "granularity", None))
    THEN Raise("ValidationError")
    ELSE Ok("stage", NewStage("BucketAuto", BucketAutoFields(kw)))

\* A statement that leaves the unset options out of the document.
BucketAutoStatementOmitting(f) ==
    resolve(PyDict("$bucketAuto" :> PyDict(
        [k \in {"groupBy", "buckets"} \cup
                (IF f["output"] = None THEN {} ELSE {"output"}) \cup
                (IF f["granularity"] = None THEN {} ELSE {"granularity"}) |->
            CASE k = "groupBy" -> f["by"]
              [] k = "buckets" -> f["buckets"]
              [] k = "output" -> f["output"]
              [] k = "granularity" -> EnumValue(f["granularity"])])))

\* A statement that adds a count field to a supplied output mapping.
BucketAutoStatementCounting(f) ==
    resolve(PyDict("$bucketAuto" :> PyDict(
        "groupBy" :> f["by"] @@
        "buckets" :> f["buckets"] @@
        "output" :> (IF f["output"] = None THEN None
                     ELSE PyDict([k \in DOMAIN f["output"].v \cup {"count"} |->
                              IF k \in DOMAIN f["output"].v THEN f["output"].v[k]
                              ELSE PyDict("$sum" :> PyInt(1))])) @@
        "granularity" :> (IF f["granularity"] # None
                          THEN EnumValue(f["granularity"]) ELSE None))))

\* BucketAuto.statement
BucketAutoStatement(f) ==
    resolve(PyDict("$bucketAuto" :> PyDict(
        "groupBy" :> f["by"] @@
        "buckets" :> f["buckets"] @@
        "output" :> f["output"] @@
        "granularity" :> (IF f["granularity"] # None
                          THEN EnumValue(f["granularity"]) ELSE None))))

------------------------------------------------------------------------------
\* The search stage (monggregate/stages/search/base.py)

MaxClauses == 1     \* clauses the compound operator of a search stage holds at most

\* The names of the clause groups of a compound operator.
ClauseType == {"must", "mustNot", "should", "filter"}

\* A search operator or collector: its class and its parameters.
SearchNode(cls, fields) == [t |-> "search", cls |-> cls, fields |-> fields]

\* Compound(minimum_should_match=n): no clause in any group.
Compound(n) ==
    SearchNode("Compound",
        [must |-> <<>>, mustNot |-> <<>>, should |-> <<>>, filter |-> <<>>,
         minimum_should_match |-> n])

TextOperator ==
    SearchNode("Text", [k \in {"query", "path"} |->
                           IF k = "query" THEN PyStr("cat") ELSE PyStr("title")])
FacetCollector == SearchNode("Facet", [k \in {"operator"} |-> None])

\* isinstance(operator, Compound)
IsCompound(operator) == operator # None /\ operator.cls = "Compound"

\* The number of clauses of a compound operator, over its four groups.
NumClauses(operator) ==
    Len(operator.fields.must) + Len(operator.fields.mustNot)
        + Len(operator.fields.should) + Len(operator.fields.filter)

\* The truth value of a Python object: None and 0 are false.
Truthy(v) == v # None /\ ~(v.t = "int" /\ v.v = 0)

\* values.get(key)
Get(values, key) == IF key \in DOMAIN values THEN values[key] ELSE None

\* a or b
PyOr(a, b) == IF Truthy(a) THEN a ELSE b

\* The calls of SearchBase that are tried: every way of passing a collector and
\* an operator, and every way of passing minimum_should_match under either
\* spelling when neither is passed.
SearchKwargs ==
    { a @@ b :
        a \in Opt("collector", {None, FacetCollector}),
        b \in Opt("operator", {None, TextOperator, Compound(PyInt(0))}) }
    \cup
    { c @@ d :
        c \in Opt("minimum_should_match", {PyInt(0), PyInt(2)}),
        d \in Opt("minimumShouldMatch", {PyInt(0), PyInt(1)}) }

\* A root validator that always takes 0 as minimum_should_match.
init_zero(values) ==
    IF "collector" \notin DOMAIN values /\ "operator" \notin DOMAIN values
    THEN values @@ ("operator" :> Compound(PyInt(0)))
    ELSE values

\* SearchBase.init, the root validator run on the arguments as passed.
init(values) ==
    IF "collector" \notin DOMAIN values /\ "operator" \notin DOMAIN values
    THEN LET given == PyOr(Get(values, "minimum_should_match"),
                           Get(values, "minimumShouldMatch"))
             minimum_should_match == IF given = None THEN PyInt(0) ELSE given
         IN values @@ ("operator" :> Compound(minimum_should_match))
    ELSE values

\* A validator that accepts a collector together with an operator.
validate_operator_lenient(value, collector) ==
    IF collector = None /\ value = None
    THEN Raise("TypeError")
    ELSE Ok("value", value)

\* SearchBase.validate_operator, run on the operator (None when it is not
\* passed) once the collector is known.
validate_operator(value, collector) ==
    IF collector = None /\ value = None
    THEN Raise("TypeError")
    ELSE IF Truthy(collector) /\ Truthy(value)
    THEN Raise("TypeError")
    ELSE Ok("value", value)

\* collector : Facet|None, operator : AnyOperator|None,
\* minimum_should_match : int = 0
SearchBaseFields(values, operator) ==
    ("collector" :> Get(values, "collector") @@
     "operator" :> operator @@
     "minimum_should_match" :>
         (IF Passed(values, "minimum_should_match", "minimumShouldMatch")
          THEN Given(values, "minimum_should_match", "minimumShouldMatch")
          ELSE PyInt(0)))

\* SearchBase(**kw): a TypeError raised by a validator is reported as a
\* validation error.
SearchBase(kw) ==
    LET values == init(kw)
        checked == validate_operator(Get(values, "operator"), Get(values, "collector"))
    IN IF checked.kind = "raise"
       THEN Raise("ValidationError")
       ELSE Ok("stage", NewStage("SearchBase", SearchBaseFields(values, checked.value)))

\* Compound._register_clause: the clause is appended to its group, in place.
RegisterClause(operator, type, clause) ==
    [operator EXCEPT !.fields[type] = Append(@, clause)]

\* The operator class behind each clause helper.
HelperClass(helper) ==
    CASE helper = "autocomplete" -> "Autocomplete"
      [] helper = "equals" -> "Equals"
      [] helper = "exists" -> "Exists"
      [] helper = "range" -> "Range"
      [] helper = "regex" -> "Regex"
      [] helper = "text" -> "Text"
      [] helper = "wildcard" -> "Wildcard"
      [] helper = "compound" -> "Compound"

\* The arguments each clause helper is called with.
HelperKwargs(helper) ==
    CASE helper = "autocomplete" -> [k \in {"query", "path"} |->
                                        IF k = "query" THEN PyStr("ca") ELSE PyStr("title")]
      [] helper = "equals" -> [k \in {"path", "value"} |->
                                        IF k = "path" THEN PyStr("status") ELSE PyStr("A")]
      [] helper = "exists" -> [k \in {"path"} |-> PyStr("status")]
      [] helper = "range" -> [k \in {"path", "gt"} |->
                                        IF k = "path" THEN PyStr("qty") ELSE PyInt(1)]
      [] helper = "regex" -> [k \in {"query", "path"} |->
                                        IF k = "query" THEN PyStr(".*") ELSE PyStr("title")]
      [] helper = "text" -> [k \in {"query", "path"} |->
                                        IF k = "query" THEN PyStr("cat") ELSE PyStr("title")]
      [] helper = "wildcard" -> [k \in {"query", "path"} |->
                                        IF k = "query" THEN PyStr("c*") ELSE PyStr("title")]
      [] helper = "compound" -> [k \in {"minimum_should_match"} |-> PyInt(0)]

\* The clause a helper of the compound operator builds from its arguments.
ClauseOf(helper, kw) ==
    IF helper = "compound"
    THEN Compound(kw["minimum_should_match"])
    ELSE SearchNode(HelperClass(helper), kw)

\* raise TypeError(f"Cannot call {helper} on {self.operator}")
CannotCall(helper, operator) ==
    [kind |-> "raise", exc |-> "TypeError", helper |-> helper, operator |-> operator]

\* What a clause helper returns: self, or the nested operator for compound.
HelperReturn(helper, clause) ==
    IF helper = "compound" THEN Ok("operator", clause) ELSE Ok("stage", "self")

------------------------------------------------------------------------------
\* The other stages (Match, Sort, Limit, ...: their classes are not part of the
\* sources at hand): a stage wraps its parameter set.

WireName(cls) ==
    CASE cls = "Set" -> "$set"
      [] cls = "Bucket" -> "$bucket"
      [] cls = "Count" -> "$count"
      [] cls = "Unwind" -> "$unwind"
      [] cls = "Group" -> "$group"
      [] cls = "Limit" -> "$limit"
      [] cls = "Match" -> "$match"
      [] cls = "Project" -> "$project"
      [] cls = "ReplaceRoot" -> "$replaceRoot"
      [] cls = "Sample" -> "$sample"
      [] cls = "Skip" -> "$skip"
      [] cls = "Sort" -> "$sort"
      [] cls = "SortByCount" -> "$sortByCount"

GenericStage(cls, kw) == Ok("stage", NewStage(cls, kw))

GenericStatement(stage) == PyDict(WireName(stage.cls) :> PyDict(stage.fields))

\* stage.statement
Statement(stage) ==
    CASE stage.cls = "Lookup" -> LookupStatement(stage.fields)
      [] stage.cls = "BucketAuto" -> BucketAutoStatement(stage.fields)
      [] OTHER -> GenericStatement(stage)

\* SearchBase.statement: the property function is declared without a
\* parameter, so reading it on a stage fails with a TypeError before its body
\* (raise NotImplementedError) is reached.
SearchBaseStatement == Raise("TypeError")

\* Reading stage.statement: the document, or the error the property raises.
StatementOutcome(stage) ==
    IF stage.cls = "SearchBase" THEN SearchBaseStatement
    ELSE Ok("dict", Statement(stage))

\* stage(): Stage.__call__ returns the stage's statement.
StageCall(stage) == Statement(stage)

\* cls(**kw): the outcome of the constructor of the class cls.
StageOf(cls, kw) ==
    CASE cls = "Lookup" -> Lookup(kw)
      [] cls = "BucketAuto" -> BucketAuto(kw)
      [] cls = "SearchBase" -> SearchBase(kw)
      [] OTHER -> GenericStage(cls, kw)

------------------------------------------------------------------------------
\* Pipeline (app/pipeline.py)

VARIABLES
    stages,       \* self.stages
    on_call,      \* self.on_call
    collection,   \* self.collection
    db,           \* self._db
    invoked,      \* the operation called last and its keyword arguments
    result,       \* what that operation returned or raised
    aggregated,   \* the aggregate calls that operation made on the database
    exported,     \* what the latest evaluation of export() returned
    previous,     \* what the evaluation of export() before the latest returned,
                  \* when no stage-adding method was called since
    exports,      \* evaluations of export() since a stage was last added
    added,        \* the stages in the order their methods added them
    built         \* the stage the latest constructor call returned

vars == <<stages, on_call, collection, db, invoked, result, aggregated,
          exported, previous, exports, added, built>>

OnCallEnum == {"run", "export"}
NoDb == "None"
Database == "db"
Collections == {"orders"}

\* What the database answers to an aggregate call: a cursor over rows, or an
\* error of its own.
Row(n) == PyDict("_id" :> PyInt(n))
Cursors(n) == {<<>>, <<Row(n), Row(n + 1)>>, <<Row(n + 1), Row(n)>>}
AggregateOutcomes ==
    {Ok("cursor", c) : c \in Cursors(1)} \cup {Raise("OperationFailure")}

Init ==
    /\ stages = <<>>
    /\ on_call \in OnCallEnum
    /\ collection \in Collections
    /\ db \in {NoDb, Database}
    /\ invoked = [op |-> "Pipeline", kwargs |-> NoKwargs]
    /\ result = Ok("pipeline", Self)
    /\ aggregated = <<>>
    /\ exported = Nothing
    /\ previous = Nothing
    /\ exports = 0
    /\ added = <<>>
    /\ built = Nothing

\* The loop of export(): one document per stage, in the order of self.stages.
RECURSIVE ExportDedup(_)
ExportDedup(s) ==
    IF s = <<>> THEN <<>>
    ELSE LET front == ExportDedup(SubSeq(s, 1, Len(s) - 1))
             doc == StageCall(s[Len(s)])
         IN  IF \E i \in DOMAIN front : front[i] = doc THEN front
             ELSE Append(front, doc)

ExportReversed(s) == [i \in 1..Len(s) |-> StageCall(s[Len(s) + 1 - i])]

Export(s) == [i \in 1..Len(s) |-> StageCall(s[i])]

CountExport(n) == IF n < MaxExports THEN n + 1 ELSE MaxExports

\* export() evaluated as the operation op: the list is built and returned, and
\* nothing of the pipeline is assigned.
ExportStepDraining(op) ==
    /\ invoked' = [op |-> op, kwargs |-> NoKwargs]
    /\ result' = Ok("list", Export(stages))
    /\ exported' = Ok("list", Export(stages))
    /\ previous' = exported
    /\ exports' = CountExport(exports)
    /\ aggregated' = <<>>
    /\ stages' = <<>>
    /\ UNCHANGED <<on_call, collection, db, added, built>>

\* An export() that returns the list it built before, when it has built one.
ExportStepCached(op) ==
    /\ invoked' = [op |-> op, kwargs |-> NoKwargs]
    /\ result' = IF exported.kind = "list" THEN exported
                 ELSE Ok("list", Export(stages))
    /\ exported' = IF exported.kind = "list" THEN exported
                   ELSE Ok("list", Export(stages))
    /\ previous' = exported
    /\ exports' = CountExport(exports)
    /\ aggregated' = <<>>
    /\ UNCHANGED <<stages, on_call, collection, db, added, built>>

ExportStep(op) ==
    /\ invoked' = [op |-> op, kwargs |-> NoKwargs]
    /\ result' = Ok("list", Export(stages))
    /\ exported' = Ok("list", Export(stages))
    /\ previous' = exported
    /\ exports' = CountExport(exports)
    /\ aggregated' = <<>>
    /\ UNCHANGED <<stages, on_call, collection, db, added, built>>

\* list(cursor): the rows in the order the cursor yields them.
ListOfReversed(cursor) == [i \in 1..Len(cursor) |-> cursor[Len(cursor) + 1 - i]]
ListOf(cursor) == cursor

\* run() evaluated as the operation op.
RunStepNoCheck(op) ==
    LET stgs == Export(stages) IN
    /\ invoked' = [op |-> op, kwargs |-> NoKwargs]
    /\ exported' = Ok("list", stgs)
    /\ previous' = exported
    /\ exports' = CountExport(exports)
    /\ IF db # NoDb
       THEN \E out \in AggregateOutcomes :
               /\ aggregated' = <<[collection |-> collection, pipeline |-> stgs,
                                   outcome |-> out]>>
               /\ result' = IF out.kind = "raise" THEN out
                            ELSE Ok("list", ListOf(out.value))
       ELSE /\ aggregated' = <<>>
            /\ result' = Raise("TypeError")
    /\ UNCHANGED <<stages, on_call, collection, db, added, built>>

RunStep(op) ==
    LET stgs == Export(stages) IN
    /\ invoked' = [op |-> op, kwargs |-> NoKwargs]
    /\ exported' = Ok("list", stgs)
    /\ previous' = exported
    /\ exports' = CountExport(exports)
    /\ IF db # NoDb
       THEN \E out \in AggregateOutcomes :
               /\ aggregated' = <<[collection |-> collection, pipeline |-> stgs,
                                   outcome |-> out]>>
               /\ result' = IF out.kind = "raise" THEN out
                            ELSE Ok("list", ListOf(out.value))
       ELSE /\ aggregated' = <<>>
            /\ result' = Raise("AttributeError")
    /\ UNCHANGED <<stages, on_call, collection, db, added, built>>

export == ExportStep("export")

to_statements == ExportStep("to_statements")

run == RunStep("run")

\* __call__: dispatch on self.on_call.
pipeline_call_swapped ==
    IF on_call = "export" THEN RunStep("__call__") ELSE ExportStep("__call__")

pipeline_call ==
    IF on_call = "export" THEN ExportStep("__call__") ELSE RunStep("__call__")

\* self.stages.append(cls(**kw)); return self -- an exception of the constructor
\* leaves the method before the append.
AddStagePrepend(op, cls, kw) ==
    LET new == StageOf(cls, kw) IN
    /\ Len(stages) < MaxStages
    /\ invoked' = [op |-> op, kwargs |-> kw]
    /\ aggregated' = <<>>
    /\ IF new.kind = "raise"
       THEN /\ result' = new
            /\ UNCHANGED <<stages, added, exports>>
       ELSE /\ stages' = <<new.value>> \o stages
            /\ added' = Append(added, new.value)
            /\ exports' = 0
            /\ result' = Ok("pipeline", Self)
    /\ previous' = Nothing
    /\ UNCHANGED <<on_call, collection, db, exported, built>>

\* A method that appends the stage as passed when its construction is rejected.
AddStageKeepingRejected(op, cls, kw) ==
    LET new == StageOf(cls, kw) IN
    /\ Len(stages) < MaxStages
    /\ invoked' = [op |-> op, kwargs |-> kw]
    /\ aggregated' = <<>>
    /\ IF new.kind = "raise"
       THEN /\ result' = new
            /\ stages' = Append(stages, NewStage(cls, kw))
            /\ UNCHANGED <<added, exports>>
       ELSE /\ stages' = Append(stages, new.value)
            /\ added' = Append(added, new.value)
            /\ exports' = 0
            /\ result' = Ok("pipeline", Self)
    /\ previous' = Nothing
    /\ UNCHANGED <<on_call, collection, db, exported, built>>

AddStage(op, cls, kw) ==
    LET new == StageOf(cls, kw) IN
    /\ Len(stages) < MaxStages
    /\ invoked' = [op |-> op, kwargs |-> kw]
    /\ aggregated' = <<>>
    /\ IF new.kind = "raise"
       THEN /\ result' = new
            /\ UNCHANGED <<stages, added, exports>>
       ELSE /\ stages' = Append(stages, new.value)
            /\ added' = Append(added, new.value)
            /\ exports' = 0
            /\ result' = Ok("pipeline", Self)
    /\ previous' = Nothing
    /\ UNCHANGED <<on_call, collection, db, exported, built>>

\* The stage-adding methods.
Add(op, cls) == \E kw \in StageKwargs(cls) : AddStage(op, cls, kw)

add_fields == Add("add_fields", "Set")

bucket == Add("bucket", "Bucket")

bucket_auto ==
    \E kw \in PipelineBucketAutoKwargs({0, 2}) :
        AddStage("bucket_auto", "BucketAuto", kw)

count == Add("count", "Count")

explode == Add("explode", "Unwind")

group == Add("group", "Group")

limit == Add("limit", "Limit")

lookup ==
    \E kw \in PipelineLookupKwargs("inventory") : AddStage("lookup", "Lookup", kw)

match == Add("match", "Match")

project == Add("project", "Project")

replace_root == Add("replace_root", "ReplaceRoot")

replace_with == Add("replace_with", "ReplaceRoot")

sample == Add("sample", "Sample")

set == Add("set", "Set")

skip == Add("skip", "Skip")

sort == Add("sort", "Sort")

sort_by_count == Add("sort_by_count", "SortByCount")

unwind == Add("unwind", "Unwind")

StageMethods ==
    {"add_fields", "bucket", "bucket_auto", "count", "explode", "group", "limit",
     "lookup", "match", "project", "replace_root", "replace_with", "sample",
     "set", "skip", "sort", "sort_by_count", "unwind"}

Next ==
    \/ pipeline_call
    \/ run
    \/ export
    \/ to_statements
    \/ add_fields
    \/ bucket
    \/ bucket_auto
    \/ count
    \/ explode
    \/ group
    \/ limit
    \/ lookup
    \/ match
    \/ project
    \/ replace_root
    \/ replace_with
    \/ sample
    \/ set
    \/ skip
    \/ sort
    \/ sort_by_count
    \/ unwind

Spec == Init /\ [][Next]_vars

------------------------------------------------------------------------------
\* Stages on their own: a stage is constructed, and its statement is read.

Construct(cls, kw) ==
    LET new == StageOf(cls, kw) IN
    /\ invoked' = [op |-> cls, kwargs |-> kw]
    /\ result' = new
    /\ built' = IF new.kind = "raise" THEN Nothing
                ELSE [kind |-> "stage", value |-> new.value, kwargs |-> kw]
    /\ UNCHANGED <<stages, on_call, collection, db, aggregated, exported, previous,
                   exports, added>>

construct_Lookup == \E kw \in LookupKwargs(SubPipelines) : Construct("Lookup", kw)

construct_BucketAuto ==
    \E kw \in BucketAutoKwargs(BucketCounts) : Construct("BucketAuto", kw)

\* stage.statement read on the stage constructed last.
read_statement ==
    /\ built.kind = "stage"
    /\ invoked' = [op |-> "statement", kwargs |-> NoKwargs]
    /\ result' = StatementOutcome(built.value)
    /\ UNCHANGED <<stages, on_call, collection, db, aggregated, exported, previous,
                   exports, added, built>>

NextStage ==
    \/ construct_Lookup
    \/ construct_BucketAuto
    \/ read_statement

\* No pipeline takes part: its fields stay as one construction left them.
InitStage == Init /\ on_call = "export" /\ db = NoDb

SpecStage == InitStage /\ [][NextStage]_vars

------------------------------------------------------------------------------
\* The search stage on its own: a stage is constructed, clauses are added to
\* its compound operator through the helpers, and its statement is read.

construct_SearchBase == \E kw \in SearchKwargs : Construct("SearchBase", kw)

\* A helper that returns as if it had acted when the operator is no compound.
SearchHelperSilent(helper, type) ==
    LET operator == built.value.fields["operator"]
        kw == HelperKwargs(helper)
        clause == ClauseOf(helper, kw)
    IN /\ built.kind = "stage"
       /\ built.value.cls = "SearchBase"
       /\ IsCompound(operator) => NumClauses(operator) < MaxClauses
       /\ invoked' = [op |-> helper, kwargs |-> kw @@ ("type" :> PyStr(type))]
       /\ IF IsCompound(operator)
          THEN /\ built' = [built EXCEPT !.value.fields["operator"] =
                                RegisterClause(operator, type, clause)]
               /\ result' = HelperReturn(helper, clause)
          ELSE /\ built' = built
               /\ result' = HelperReturn(helper, clause)
       /\ UNCHANGED <<stages, on_call, collection, db, aggregated, exported, previous,
                      exports, added>>

\* A helper that, when the operator is no compound, puts a compound holding
\* the clause in its place.
SearchHelperReplacing(helper, type) ==
    LET operator == built.value.fields["operator"]
        kw == HelperKwargs(helper)
        clause == ClauseOf(helper, kw)
    IN /\ built.kind = "stage"
       /\ built.value.cls = "SearchBase"
       /\ IsCompound(operator) => NumClauses(operator) < MaxClauses
       /\ invoked' = [op |-> helper, kwargs |-> kw @@ ("type" :> PyStr(type))]
       /\ built' = [built EXCEPT !.value.fields["operator"] =
                       RegisterClause(IF IsCompound(operator) THEN operator
                                      ELSE Compound(PyInt(0)), type, clause)]
       /\ result' = HelperReturn(helper, clause)
       /\ UNCHANGED <<stages, on_call, collection, db, aggregated, exported,
                      previous, exports, added>>

\* stage.helper(type, **kw) for a clause helper of SearchBase: the clause is
\* registered in the stage's compound operator, or a TypeError is raised when
\* the operator is not a compound.
SearchHelper(helper, type) ==
    LET operator == built.value.fields["operator"]
        kw == HelperKwargs(helper)
        clause == ClauseOf(helper, kw)
    IN /\ built.kind = "stage"
       /\ built.value.cls = "SearchBase"
       /\ IsCompound(operator) => NumClauses(operator) < MaxClauses
       /\ invoked' = [op |-> helper, kwargs |-> kw @@ ("type" :> PyStr(type))]
       /\ IF IsCompound(operator)
          THEN /\ built' = [built EXCEPT !.value.fields["operator"] =
                                RegisterClause(operator, type, clause)]
               /\ result' = HelperReturn(helper, clause)
          ELSE /\ built' = built
               /\ result' = CannotCall(helper, operator)
       /\ UNCHANGED <<stages, on_call, collection, db, aggregated, exported, previous,
                      exports, added>>

autocomplete == \E type \in ClauseType : SearchHelper("autocomplete", type)

equals == \E type \in ClauseType : SearchHelper("equals", type)

exists == \E type \in ClauseType : SearchHelper("exists", type)

range == \E type \in ClauseType : SearchHelper("range", type)

regex == \E type \in ClauseType : SearchHelper("regex", type)

text == \E type \in ClauseType : SearchHelper("text", type)

wildcard == \E type \in ClauseType : SearchHelper("wildcard", type)

compound == \E type \in ClauseType : SearchHelper("compound", type)

SearchHelpers ==
    {"autocomplete", "equals", "exists", "range", "regex", "text", "wildcard",
     "compound"}

NextSearch ==
    \/ construct_SearchBase
    \/ autocomplete
    \/ equals
    \/ exists
    \/ range
    \/ regex
    \/ text
    \/ wildcard
    \/ compound
    \/ read_statement

SpecSearch == InitStage /\ [][NextSearch]_vars

------------------------------------------------------------------------------
\* Operators (monggregate/operators/array/in_.py,
\* monggregate/operators/accumulators/last.py)

\* A keyword argument at its place in a call, and a call's arguments as the
\* mapping the constructor receives.
Arg(k, v) == [k |-> k, v |-> v]
KwargsDict(args) ==
    [k \in {args[i].k : i \in DOMAIN args} |->
        args[CHOOSE i \in DOMAIN args : args[i].k = k].v]

\* An operator instance: its class and its fields.
NewOperator(cls, fields) == [t |-> "operator", cls |-> cls, fields |-> fields]
IsOperator(v) == v.t = "operator"

\* The subclasses of Accumulator among the operators modelled.
Accumulators == {"Last"}

\* isinstance(expression, Accumulator)
IsAccumulator(v) == IsOperator(v) /\ v.cls \in Accumulators

\* expression : Expression = Field(1, alias="n"); array : Expression =
\* Field(alias="input")
INFields(kw) ==
    ("expression" :> (IF Passed(kw, "expression", "n")
                      THEN Given(kw, "expression", "n") ELSE PyInt(1)) @@
     "array" :> Given(kw, "array", "input"))

\* A constructor that fills the fields in the order of the call.
INPositional(args) ==
    IF ~Passed(KwargsDict(args), "array", "input")
    THEN Raise("ValidationError")
    ELSE IF Len(args) = 2
    THEN Ok("operator", NewOperator("IN",
             "expression" :> args[1].v @@ "array" :> args[2].v))
    ELSE Ok("operator", NewOperator("IN", INFields(KwargsDict(args))))

\* IN(**kw), the constructor of the class IN
INOperator(args) ==
    IF ~Passed(KwargsDict(args), "array", "input")
    THEN Raise("ValidationError")
    ELSE Ok("operator", NewOperator("IN", INFields(KwargsDict(args))))

\* IN.statement
INStatement(f) == PyDict("$in" :> PyList(<<f["expression"], f["array"]>>))

\* Last.statement
LastStatement(f) == PyDict("$push" :> f["expression"])

\* The objects operators (monggregate.operators.objects): single-value
\* operators, whose payload is the compiled expression.
ObjectsOperators == {"MergeObjects", "ObjectToArray"}

ObjectsWireName(cls) ==
    CASE cls = "MergeObjects" -> "$mergeObjects"
      [] cls = "ObjectToArray" -> "$objectToArray"

\* cls(**kw) for an objects operator
ObjectsOperator(cls, args) ==
    IF "expression" \notin DOMAIN KwargsDict(args)
    THEN Raise("ValidationError")
    ELSE Ok("operator", NewOperator(cls,
             [k \in {"expression"} |-> KwargsDict(args)[k]]))

\* MergeObjects(**kw)
MergeObjects(args) == ObjectsOperator("MergeObjects", args)

\* ObjectToArray(**kw)
ObjectToArray(args) == ObjectsOperator("ObjectToArray", args)

\* The statement of an objects operator
ObjectsStatement(operator) ==
    PyDict([k \in {ObjectsWireName(operator.cls)} |->
               resolve(operator.fields["expression"])])

\* operator.statement
OperatorStatement(operator) ==
    CASE operator.cls = "IN" -> INStatement(operator.fields)
      [] operator.cls = "Last" -> LastStatement(operator.fields)
      [] operator.cls \in ObjectsOperators -> ObjectsStatement(operator)

\* Last.convert_expression
convert_expression(expression) ==
    IF IsAccumulator(expression)
    THEN OperatorStatement(expression)
    ELSE expression

\* Last(**kw)
Last(args) ==
    IF "expression" \notin DOMAIN KwargsDict(args)
    THEN Raise("ValidationError")
    ELSE Ok("operator", NewOperator("Last",
             [k \in {"expression"} |-> convert_expression(KwargsDict(args)[k])]))

\* cls(**kw) for an operator class
OperatorOf(cls, args) ==
    CASE cls = "IN" -> INOperator(args)
      [] cls = "Last" -> Last(args)
      [] cls = "MergeObjects" -> MergeObjects(args)
      [] cls = "ObjectToArray" -> ObjectToArray(args)

\* The values passed for expression and array of IN.
INExpressions == {PyStr("$qty"), PyInt(2), PyStr("$sizes")}
INArrays == {PyStr("$sizes"), PyList(<<PyInt(1), PyInt(2)>>), PyStr("$qty")}

\* Every call of IN: each argument under its name or its alias or left out,
\* in either order.
INArgs ==
    LET es == {Arg(k, v) : k \in {"expression", "n"}, v \in INExpressions}
        as == {Arg(k, v) : k \in {"array", "input"}, v \in INArrays}
    IN {<<>>} \cup {<<e>> : e \in es} \cup {<<a>> : a \in as}
         \cup {<<e, a>> : e \in es, a \in as}
         \cup {<<a, e>> : e \in es, a \in as}

\* Operator instances passed as the expression of Last.
LastOperand == NewOperator("Last", [k \in {"expression"} |-> PyStr("$price")])
INOperand ==
    NewOperator("IN", [k \in {"expression", "array"} |->
                          IF k = "expression" THEN PyStr("$qty") ELSE PyStr("$sizes")])

\* Every call of Last.
LastArgs ==
    {<<>>} \cup
    {<<Arg("expression", v)>> :
        v \in {PyStr("$price"), PyInt(1), PyDict([k \in {"$sum"} |-> PyInt(1)]),
               LastOperand, INOperand}}

\* An operator is constructed, and its statement is read.
ConstructOperator(cls, args) ==
    LET new == OperatorOf(cls, args) IN
    /\ invoked' = [op |-> cls, kwargs |-> args]
    /\ result' = new
    /\ built' = IF new.kind = "raise" THEN Nothing
                ELSE [kind |-> "operator", value |-> new.value, kwargs |-> args]
    /\ UNCHANGED <<stages, on_call, collection, db, aggregated, exported, previous,
                   exports, added>>

construct_IN == \E args \in INArgs : ConstructOperator("IN", args)

construct_Last == \E args \in LastArgs : ConstructOperator("Last", args)

\* Every call of MergeObjects and of ObjectToArray.
ObjectsExpressions ==
    {PyStr("$quantity"), PyStr("$dimensions"),
     PyDict([k \in {"qty"} |-> PyStr("$quantity")]),
     PyList(<<PyStr("$a"), PyStr("$b")>>)}

ObjectsArgs == {<<>>} \cup {<<Arg("expression", e)>> : e \in ObjectsExpressions}

construct_MergeObjects ==
    \E args \in ObjectsArgs : ConstructOperator("MergeObjects", args)

construct_ObjectToArray ==
    \E args \in ObjectsArgs : ConstructOperator("ObjectToArray", args)

\* The class behind each function form, with the classes exchanged between the
\* two objects operators.
FunctionClassSwapped(fn) ==
    CASE fn = "in_" -> "IN"
      [] fn = "last" -> "Last"
      [] fn = "merge_objects" -> "ObjectToArray"
      [] fn = "object_to_array" -> "MergeObjects"

\* The class whose statement each function form returns.
FunctionClass(fn) ==
    CASE fn = "in_" -> "IN"
      [] fn = "last" -> "Last"
      [] fn = "merge_objects" -> "MergeObjects"
      [] fn = "object_to_array" -> "ObjectToArray"

\* The call a function form makes with its argument: in_(array) calls
\* IN(expression = array), last(expression) calls Last(expression=expression).
FunctionArgs(fn, x) == <<Arg("expression", x)>>

\* fn(x): the statement of the operator the function constructs, or the error
\* its constructor raises.
CallFunction(fn, x) ==
    LET new == OperatorOf(FunctionClass(fn), FunctionArgs(fn, x)) IN
    /\ invoked' = [op |-> fn, kwargs |-> <<Arg("x", x)>>]
    /\ result' = IF new.kind = "raise" THEN new
                 ELSE Ok("dict", OperatorStatement(new.value))
    /\ UNCHANGED <<stages, on_call, collection, db, aggregated, exported, previous,
                   exports, added, built>>

in_ == \E array \in INArrays : CallFunction("in_", array)

last ==
    \E expression \in {PyStr("$price"), PyInt(1), LastOperand, INOperand} :
        CallFunction("last", expression)

merge_objects == \E e \in ObjectsExpressions : CallFunction("merge_objects", e)

object_to_array == \E e \in ObjectsExpressions : CallFunction("object_to_array", e)

\* operator.statement read on the operator constructed last.
read_operator_statement ==
    /\ built.kind = "operator"
    /\ invoked' = [op |-> "statement", kwargs |-> NoKwargs]
    /\ result' = Ok("dict", OperatorStatement(built.value))
    /\ UNCHANGED <<stages, on_call, collection, db, aggregated, exported, previous,
                   exports, added, built>>

NextOperator ==
    \/ construct_IN
    \/ construct_Last
    \/ construct_MergeObjects
    \/ construct_ObjectToArray
    \/ in_
    \/ last
    \/ merge_objects
    \/ object_to_array
    \/ read_operator_statement

SpecOperator == InitStage /\ [][NextOperator]_vars

------------------------------------------------------------------------------
\* Properties of the Pipeline (checked under Spec)

ExportOps == {"export", "to_statements"}

\* C1: export() returns exactly one document per stage added, the i-th document
\* being the statement of the i-th stage added: nothing is reordered, merged or
\* deduplicated.
C1_ExportOneDocumentPerStageInOrder ==
    invoked.op \in ExportOps =>
        /\ result.kind = "list"
        /\ Len(result.value) = Len(added)
        /\ \A i \in 1..Len(added) : result.value[i] = Statement(added[i])

\* Two equal stages were added, and export() has returned.
C1_Witness ==
    /\ invoked.op = "export"
    /\ Len(added) = 2
    /\ added[1] = added[2]
    /\ Len(result.value) = 2

\* C2: export() assigns nothing of the pipeline (stages, collection, on_call),
\* and an export() that follows another with no stage added in between returns
\* the same list.
C2_ExportIdempotentNoSideEffect ==
    [][invoked'.op \in ExportOps =>
          /\ stages' = stages
          /\ collection' = collection
          /\ on_call' = on_call
          /\ (exports >= 1 => exported' = exported)]_vars

\* export() was evaluated twice with no stage added in between, on a pipeline
\* that holds stages.
C2_Witness ==
    /\ invoked.op = "export"
    /\ exports >= 2
    /\ Len(stages) = 2
    /\ exported = result

\* C3: a stage-adding method that does not raise adds exactly one stage, puts it
\* last, leaves the earlier stages where they were and returns the pipeline.
C3_AddStageAppendsOneAndReturnsSelf ==
    [][(invoked'.op \in StageMethods /\ result'.kind # "raise") =>
          /\ Len(stages') = Len(stages) + 1
          /\ SubSeq(stages', 1, Len(stages)) = stages
          /\ Len(added') = Len(added) + 1
          /\ stages'[Len(stages')] = added'[Len(added')]
          /\ result' = Ok("pipeline", Self)]_vars

\* A stage-adding method has added a second stage, different from the first.
C3_Witness ==
    /\ invoked.op \in StageMethods
    /\ result = Ok("pipeline", Self)
    /\ Len(stages) = 2
    /\ stages[1] # stages[2]

\* C4: a call of the pipeline in export mode returns export() and makes no
\* aggregate call; in run mode with a database it makes exactly one aggregate
\* call, on the pipeline's collection with export() of the current stages, and
\* returns the rows of that call in their order.
C4_CallDispatchesOnOnCall ==
    invoked.op = "__call__" =>
        IF on_call = "export"
        THEN /\ aggregated = <<>>
             /\ result = Ok("list", [i \in 1..Len(stages) |-> Statement(stages[i])])
        ELSE db # NoDb =>
             /\ Len(aggregated) = 1
             /\ aggregated[1].collection = collection
             /\ aggregated[1].pipeline = [i \in 1..Len(stages) |-> Statement(stages[i])]
             /\ (aggregated[1].outcome.kind = "cursor" =>
                    result = Ok("list", aggregated[1].outcome.value))

\* A pipeline of two stages was called in run mode with a database, and the
\* rows came back.
C4_Witness ==
    /\ invoked.op = "__call__"
    /\ on_call = "run"
    /\ db # NoDb
    /\ Len(stages) = 2
    /\ result.kind = "list"
    /\ Len(result.value) = 2

\* C5: run mode without a database raises the configuration error
\* (AttributeError), makes no aggregate call and leaves the stages alone.
C5_RunWithoutDatabaseFails ==
    [][((invoked'.op = "run" \/ (invoked'.op = "__call__" /\ on_call = "run"))
        /\ db = NoDb) =>
          /\ result' = Raise("AttributeError")
          /\ aggregated' = <<>>
          /\ stages' = stages]_vars

\* A pipeline holding stages was called in run mode without a database.
C5_Witness ==
    /\ invoked.op = "__call__"
    /\ on_call = "run"
    /\ db = NoDb
    /\ Len(stages) >= 1
    /\ result.kind = "raise"

------------------------------------------------------------------------------
\* Properties of the stages (checked under SpecStage)

ForbiddenInLookup == {"$out", "$merge"}

\* A list of stage documents that holds a $out or a $merge stage somewhere.
HasForbidden(p) ==
    /\ IsListOfDict(p)
    /\ \E i \in DOMAIN p.v : DOMAIN p.v[i].v \cap ForbiddenInLookup # {}

FourPassed(kw) ==
    \A f \in {"left_on", "name", "right", "right_on"} : Passed(kw, f, LookupAliasOf(f))

\* C6: constructing a Lookup whose sub-pipeline holds a $out or $merge stage at
\* any position raises a validation error, and no Lookup stage holds such a
\* sub-pipeline.
C6_LookupRejectsOutAndMerge ==
    /\ (invoked.op = "Lookup" /\ "pipeline" \in DOMAIN invoked.kwargs
        /\ HasForbidden(invoked.kwargs["pipeline"]))
           => result = Raise("ValidationError")
    /\ (built.kind = "stage" /\ built.value.cls = "Lookup")
           => ~HasForbidden(built.value.fields["pipeline"])

\* C7: Lookup requires right, left_on, right_on and name, and let and pipeline
\* are optional: with the four and neither let nor pipeline the construction
\* succeeds, and with one of the four missing it fails.
C7_LookupRequiresFourOnly ==
    invoked.op = "Lookup" =>
        /\ (FourPassed(invoked.kwargs) /\ "let" \notin DOMAIN invoked.kwargs
            /\ "pipeline" \notin DOMAIN invoked.kwargs) => result.kind = "stage"
        /\ ~FourPassed(invoked.kwargs) => result = Raise("ValidationError")

\* What the keyword arguments kw of a Lookup compile to.
LookupDocument(kw) ==
    PyDict("$lookup" :> PyDict(
        "from" :> Given(kw, "right", "from") @@
        "localField" :> Given(kw, "left_on", "local_field") @@
        "foreignField" :> Given(kw, "right_on", "foreign_field") @@
        "as" :> Given(kw, "name", "as") @@
        "let" :> kw["let"] @@
        "pipeline" :> kw["pipeline"]))

C9_BucketAutoBucketsPositive ==
    /\ (invoked.op = "BucketAuto" /\ "buckets" \in DOMAIN invoked.kwargs
        /\ invoked.kwargs["buckets"].v <= 0)
           => result = Raise("ValidationError")
    /\ (built.kind = "stage" /\ built.value.cls = "BucketAuto")
           => built.value.fields["buckets"].v > 0

\* A BucketAuto with buckets = 0 and nothing else wrong was refused.
C9_Witness ==
    /\ invoked.op = "BucketAuto"
    /\ invoked.kwargs = ("by" :> PyStr("$price") @@ "buckets" :> PyInt(0))
    /\ result = Raise("ValidationError")
    /\ built = Nothing

\* C10: a BucketAuto built with by and buckets and no output or granularity
\* compiles to {$bucketAuto: {groupBy: by, buckets: buckets, output: null,
\* granularity: null}}, with exactly these four body keys.
C10_BucketAutoStatementDefaults ==
    (invoked.op = "statement" /\ built.value.cls = "BucketAuto"
     /\ Default(built.kwargs, "output", None) = None
     /\ Default(built.kwargs, "granularity", None) = None) =>
        /\ DOMAIN result.value.v = {"$bucketAuto"}
        /\ DOMAIN result.value.v["$bucketAuto"].v =
               {"groupBy", "buckets", "output", "granularity"}
        /\ result.value = PyDict("$bucketAuto" :> PyDict(
               "groupBy" :> Given(built.kwargs, "by", "group_by") @@
               "buckets" :> built.kwargs["buckets"] @@
               "output" :> None @@
               "granularity" :> None))

\* The statement of BucketAuto(by="$price", buckets=2) was read.
C10_Witness ==
    /\ invoked.op = "statement"
    /\ built.value.cls = "BucketAuto"
    /\ built.kwargs = ("by" :> PyStr("$price") @@ "buckets" :> PyInt(2))
    /\ result.value.v["$bucketAuto"].v["buckets"] = PyInt(2)

\* C11: when an output mapping is supplied to a BucketAuto, the compiled output
\* has exactly the supplied field names, each mapped to the accumulator
\* expression supplied for it: no count field or other key is added, and none
\* is removed.
C11_BucketAutoOutputExact ==
    (invoked.op = "statement" /\ built.value.cls = "BucketAuto"
     /\ Default(built.kwargs, "output", None) # None) =>
        /\ DOMAIN result.value.v["$bucketAuto"].v["output"].v =
               DOMAIN built.kwargs["output"].v
        /\ "count" \notin DOMAIN result.value.v["$bucketAuto"].v["output"].v
        /\ result.value.v["$bucketAuto"].v["output"] = built.kwargs["output"]

\* The statement of a BucketAuto built with output = {avg: {$avg: "$price"}}
\* was read.
C11_Witness ==
    /\ invoked.op = "statement"
    /\ built.value.cls = "BucketAuto"
    /\ "output" \in DOMAIN built.kwargs
    /\ built.kwargs["output"] = OutputDoc
    /\ DOMAIN result.value.v["$bucketAuto"].v["output"].v = {"avg"}

\* C12: the granularity of a BucketAuto is written as its string tag when it
\* is set, and the compiled document has no granularity key when it is unset.
C12_BucketAutoGranularityTagOrOmitted ==
    (invoked.op = "statement" /\ built.value.cls = "BucketAuto") =>
        IF Default(built.kwargs, "granularity", None) # None
        THEN /\ "granularity" \in DOMAIN result.value.v["$bucketAuto"].v
             /\ result.value.v["$bucketAuto"].v["granularity"] =
                    built.kwargs["granularity"]
        ELSE "granularity" \notin DOMAIN result.value.v["$bucketAuto"].v

\* The operations that compile the pipeline: export() itself and run(), which
\* begins with it.
CompileOps == ExportOps \cup {"run", "__call__"}

\* C22: compilation is not cached. An export() that follows an earlier one
\* returns the documents of the stages present at the call: the earlier output
\* followed by the documents of the stages added since, so that the earlier
\* output is a strict prefix when a stage was added; and a call in run mode
\* sends the documents of the stages present at the call.
C22_CompilationNotCached ==
    /\ (invoked.op \in CompileOps /\ previous.kind = "list") =>
           /\ exported.value = Export(stages)
           /\ Len(previous.value) <= Len(exported.value)
           /\ SubSeq(exported.value, 1, Len(previous.value)) = previous.value
           /\ Len(stages) = Len(previous.value) + 1 =>
                  exported.value =
                      Append(previous.value, Statement(stages[Len(stages)]))
           /\ Len(stages) > Len(previous.value) => exported.value # previous.value
           /\ invoked.op \in ExportOps => result = exported
    /\ (invoked.op \in CompileOps /\ aggregated # <<>>) =>
           aggregated[1].pipeline = Export(stages)

\* export() returned one document, a second stage was added, and export() has
\* returned two documents.
C22_Witness ==
    /\ invoked.op = "export"
    /\ previous.kind = "list"
    /\ Len(previous.value) = 1
    /\ Len(stages) = 2
    /\ exports = 1
    /\ result.value = Append(previous.value, Statement(stages[2]))

\* C24: a stage-adding method that fails because the construction of the stage
\* is rejected leaves the pipeline as it was: no stage is appended, the stages
\* and their order are unchanged, and export() returns after the call what it
\* returned before it.
C24_FailedAddLeavesPipelineUnchanged ==
    [][(invoked'.op \in StageMethods /\ result'.kind = "raise") =>
          /\ stages' = stages
          /\ Len(stages') = Len(stages)
          /\ Export(stages') = Export(stages)
          /\ exported' = exported
          /\ exports' = exports
          /\ on_call' = on_call
          /\ collection' = collection
          /\ db' = db]_vars

\* export() returned one document, then lookup() was called without let and
\* pipeline and was refused, and the pipeline still compiles to that document.
C24_Witness ==
    /\ invoked.op = "lookup"
    /\ invoked.kwargs = FourOf("inventory")
    /\ result = Raise("ValidationError")
    /\ Len(stages) = 1
    /\ exports >= 1
    /\ exported = Ok("list", Export(stages))

------------------------------------------------------------------------------
\* Properties of the search stage (checked under SpecSearch)

\* C13: constructing a search stage with both a collector and an operator
\* fails with a validation error, and no stage is created.
C13_SearchRejectsCollectorAndOperator ==
    (invoked.op = "SearchBase"
     /\ Get(invoked.kwargs, "collector") # None
     /\ Get(invoked.kwargs, "operator") # None) =>
        /\ result = Raise("ValidationError")
        /\ built = Nothing

\* SearchBase(collector=Facet, operator=Text) was refused.
C13_Witness ==
    /\ invoked.op = "SearchBase"
    /\ Get(invoked.kwargs, "collector") = FacetCollector
    /\ Get(invoked.kwargs, "operator") = TextOperator
    /\ result = Raise("ValidationError")
    /\ built = Nothing

\* The values of minimum_should_match passed under either spelling.
SuppliedMinimumShouldMatch(kw) ==
    {kw[k] : k \in DOMAIN kw \cap {"minimum_should_match", "minimumShouldMatch"}}

\* C14: a search stage constructed with neither a collector nor an operator
\* has an empty compound operator whose minimum_should_match is the value
\* supplied under either spelling, and 0 when none is supplied.
C14_SearchDefaultsToEmptyCompound ==
    (invoked.op = "SearchBase"
     /\ "collector" \notin DOMAIN invoked.kwargs
     /\ "operator" \notin DOMAIN invoked.kwargs) =>
        /\ result.kind = "stage"
        /\ built.kind = "stage"
        /\ built.value.fields["collector"] = None
        /\ IsCompound(built.value.fields["operator"])
        /\ NumClauses(built.value.fields["operator"]) = 0
        /\ IF SuppliedMinimumShouldMatch(invoked.kwargs) = {}
           THEN built.value.fields["operator"].fields.minimum_should_match = PyInt(0)
           ELSE built.value.fields["operator"].fields.minimum_should_match
                    \in SuppliedMinimumShouldMatch(invoked.kwargs)

\* SearchBase(minimumShouldMatch=1) gave a stage whose operator is an empty
\* compound with minimum_should_match 1.
C14_Witness ==
    /\ invoked.op = "SearchBase"
    /\ DOMAIN invoked.kwargs = {"minimumShouldMatch"}
    /\ invoked.kwargs["minimumShouldMatch"] = PyInt(1)
    /\ built.kind = "stage"
    /\ built.value.fields["operator"] = Compound(PyInt(1))

\* C15: a clause helper called on a search stage whose operator is not a
\* compound (a collector and no operator included) raises a TypeError that
\* names the helper and the operator, and leaves operator and collector as
\* they were.
C15_HelperOnNonCompoundFails ==
    [][(built.kind = "stage" /\ built.value.cls = "SearchBase"
        /\ ~IsCompound(built.value.fields["operator"])
        /\ invoked'.op \in SearchHelpers) =>
           /\ result' = CannotCall(invoked'.op, built.value.fields["operator"])
           /\ built'.value.fields["operator"] = built.value.fields["operator"]
           /\ built'.value.fields["collector"] = built.value.fields["collector"]]_vars

\* equals was called on a stage holding a collector and no operator, and the
\* TypeError names None.
C15_Witness ==
    /\ invoked.op = "equals"
    /\ built.kind = "stage"
    /\ built.value.fields["collector"] = FacetCollector
    /\ built.value.fields["operator"] = None
    /\ result = CannotCall("equals", None)

\* C16: reading the statement of a constructed stage returns a document, and
\* export() and to_statements() return without raising.
C16_CompilationNeverFails ==
    /\ invoked.op = "statement" => result.kind = "dict"
    /\ invoked.op \in ExportOps => result.kind = "list"

\* C17: no clause helper called on a constructed search stage changes the
\* stage's parameters.
C17_StageImmutableAfterConstruction ==
    [][(built.kind = "stage" /\ invoked'.op \in SearchHelpers) =>
           (built'.kind = "stage" /\ built'.value = built.value)]_vars

\* Exactly one of collector and operator is set.
ExactlyOneSet(stage) ==
    (stage.fields["collector"] = None) # (stage.fields["operator"] = None)

\* s is t, or t with elements added at its end.
IsPrefix(s, t) == Len(s) <= Len(t) /\ SubSeq(t, 1, Len(s)) = s

------------------------------------------------------------------------------
\* Properties of the operators (checked under SpecOperator)

\* The value a call passes for a parameter under its name or its alias.
PassedValue(args, name, alias) == Given(KwargsDict(args), name, alias)

\* C18: IN compiles to {$in: [expression, array]}, the expression first and
\* the array second, in whichever order the caller passes the two arguments.
C18_INStatementInDeclaredOrder ==
    (invoked.op = "statement" /\ built.kind = "operator" /\ built.value.cls = "IN") =>
        /\ DOMAIN result.value.v = {"$in"}
        /\ Len(result.value.v["$in"].v) = 2
        /\ result.value.v["$in"].v[2] = PassedValue(built.kwargs, "array", "input")
        /\ Passed(KwargsDict(built.kwargs), "expression", "n") =>
               result.value.v["$in"].v[1] = PassedValue(built.kwargs, "expression", "n")

\* The statement of IN(array=[1, 2], expression="$qty"), the array passed
\* first, was read.
C18_Witness ==
    /\ invoked.op = "statement"
    /\ built.kind = "operator"
    /\ built.kwargs = <<Arg("array", PyList(<<PyInt(1), PyInt(2)>>)),
                         Arg("expression", PyStr("$qty"))>>
    /\ result.value.v["$in"] = PyList(<<PyStr("$qty"), PyList(<<PyInt(1), PyInt(2)>>)>>)

\* C19: Last compiles to a document with the single key $last, whose value is
\* the operator's expression.
C19_LastStatementWireName ==
    (invoked.op = "statement" /\ built.kind = "operator" /\ built.value.cls = "Last") =>
        /\ DOMAIN result.value.v = {"$last"}
        /\ result.value.v["$last"] = built.value.fields["expression"]

\* C20: when the expression passed to Last is an operator instance, of any
\* kind, the expression stored and compiled is that operator's statement; any
\* other expression is kept as it is.
C20_LastConvertsAnyOperator ==
    (built.kind = "operator" /\ built.value.cls = "Last") =>
        LET expression == KwargsDict(built.kwargs)["expression"]
            expected == IF IsOperator(expression)
                        THEN OperatorStatement(expression) ELSE expression
        IN /\ built.value.fields["expression"] = expected
           /\ invoked.op = "statement" =>
                  \A k \in DOMAIN result.value.v : result.value.v[k] = expected

C25_InFunctionPutsArraySecond ==
    invoked.op = "in_" =>
        /\ result.kind = "dict"
        /\ DOMAIN result.value.v = {"$in"}
        /\ Len(result.value.v["$in"].v) = 2
        /\ result.value.v["$in"].v[2] = invoked.kwargs[1].v

====
